---- MODULE Spec2Model ----
(***************************************************************************)
(* Model of the status engine of src/src/update_red_tide.py                *)
(* (HierarchicalRedTideProcessor): the abundance classifier, the site      *)
(* weight, the beach-level aggregation, the city / region rollup and the   *)
(* three loops of run().                                                   *)
(*                                                                         *)
(* Strings are sequences of one-character strings, so that lower(),        *)
(* the `in` substring test and re.findall are computed character by        *)
(* character.  Python floats are represented exactly as integers in a      *)
(* fixed unit (weights in 1/700); IEEE rounding is not modelled.           *)
(***************************************************************************)
EXTENDS Integers, Sequences, FiniteSets, TLC

VARIABLES
    pc,              \* position of the current specification's driver
    abundance_text,  \* argument of parse_abundance_number
    parsed,          \* what parse_abundance_number returned (or raised)
    distance,        \* argument of get_distance_weight, in tenths of a mile
    age_days,        \* age of the sample in whole days
    final_weight,    \* final_weight of one site, in units of 1/700
    sampling_sites,  \* calculate_beach_status argument: rows of sample_mapping
    fwc_data,        \* calculate_beach_status argument: the FWC features
    now,             \* the wall clock read by datetime.now(), in hours
    beach_status,    \* the last value calculate_beach_status returned
    sample_mapping,  \* self.sample_mapping: beach -> its rows, in sheet order
    locations_data,  \* self.locations_data['beaches']: beach -> city, region
    beach_results,   \* run(): the list of processed beaches
    city_results,    \* run(): the list of processed cities
    region_results,  \* run(): the processed regions, in order
    todo,            \* run(): the beaches, cities and regions still to process
    last_rollup      \* the last process_city / process_region call and its value

vars == <<pc, abundance_text, parsed, distance, age_days, final_weight,
          sampling_sites, fwc_data, now, beach_status,
          sample_mapping, locations_data,
          beach_results, city_results, region_results, todo, last_rollup>>

classifyVars == <<abundance_text, parsed>>
weightVars == <<distance, age_days, final_weight>>
beachVars == <<sampling_sites, fwc_data, now, beach_status>>
registryVars == <<sample_mapping, locations_data>>
rollupVars == <<beach_results, city_results, region_results, todo, last_rollup>>

(***************************************************************************)
(* Bounds.                                                                 *)
(***************************************************************************)
MaxPieces == 2      \* pieces concatenated into one abundance text
MaxSites == 2       \* sampling sites mapped to one beach
MaxBeaches == 3     \* processed beaches handed to a rollup
MaxAge == 16        \* largest sample age (days) fed to the weight

(***************************************************************************)
(* Strings.                                                                *)
(***************************************************************************)
UpperCase == <<"A", "B", "C", "D", "E", "F", "G", "H", "I", "J", "K", "L", "M",
               "N", "O", "P", "Q", "R", "S", "T", "U", "V", "W", "X", "Y", "Z">>
LowerCase == <<"a", "b", "c", "d", "e", "f", "g", "h", "i", "j", "k", "l", "m",
               "n", "o", "p", "q", "r", "s", "t", "u", "v", "w", "x", "y", "z">>
DigitChars == <<"0", "1", "2", "3", "4", "5", "6", "7", "8", "9">>

\* str.lower() on one character
LowerChar(c) ==
    IF \E i \in DOMAIN UpperCase : UpperCase[i] = c
    THEN LowerCase[CHOOSE i \in DOMAIN UpperCase : UpperCase[i] = c]
    ELSE c

\* str.lower()
Lower(s) == [i \in DOMAIN s |-> LowerChar(s[i])]

\* the Python test `k in s` on strings
Contains(s, k) ==
    \E i \in 1..(Len(s) - Len(k) + 1) : SubSeq(s, i, i + Len(k) - 1) = k

IsDigit(c) == \E i \in DOMAIN DigitChars : DigitChars[i] = c
DigitVal(c) == (CHOOSE i \in DOMAIN DigitChars : DigitChars[i] = c) - 1

\* the character class [\d,]
IsNumChar(c) == IsDigit(c) \/ c = ","

\* last index of the maximal [\d,]+ run that starts at i
GroupEnd(s, i) ==
    CHOOSE j \in i..Len(s) :
        /\ \A k \in i..j : IsNumChar(s[k])
        /\ (j = Len(s) \/ ~IsNumChar(s[j + 1]))

RECURSIVE FindAllFrom(_, _)
FindAllFrom(s, i) ==
    IF i > Len(s) THEN <<>>
    ELSE IF ~IsNumChar(s[i]) THEN FindAllFrom(s, i + 1)
    ELSE <<SubSeq(s, i, GroupEnd(s, i))>> \o FindAllFrom(s, GroupEnd(s, i) + 1)

\* re.findall(r'[\d,]+', s): the maximal groups, left to right
FindAll(s) == FindAllFrom(s, 1)

\* str.replace(',', '')
StripCommas(g) == SelectSeq(g, LAMBDA c : c # ",")

RECURSIVE DecimalValue(_)
DecimalValue(d) ==
    IF d = <<>> THEN 0
    ELSE 10 * DecimalValue(SubSeq(d, 1, Len(d) - 1)) + DigitVal(d[Len(d)])

\* int(g.replace(',', '')) raises ValueError on the empty string
IntRaises(g) == StripCommas(g) = <<>>
IntOf(g) == DecimalValue(StripCommas(g))

(***************************************************************************)
(* parse_abundance_number                                                  *)
(***************************************************************************)
kw_not_present == <<"n", "o", "t", " ", "p", "r", "e", "s", "e", "n", "t">>
kw_background == <<"b", "a", "c", "k", "g", "r", "o", "u", "n", "d">>
kw_very_low == <<"v", "e", "r", "y", " ", "l", "o", "w">>
kw_very == <<"v", "e", "r", "y">>
kw_low == <<"l", "o", "w">>
kw_medium == <<"m", "e", "d", "i", "u", "m">>
kw_high == <<"h", "i", "g", "h">>

Returned(count, status) == [raised |-> FALSE, count |-> count, status |-> status]
ValueError == [raised |-> TRUE, count |-> 0, status |-> "ValueError"]
NotParsed == [raised |-> FALSE, count |-> 0, status |-> "pending"]

\* the body shared by the low / medium / high branches
RangeMidpoint(numbers, default, status) ==
    IF Len(numbers) >= 2
    THEN IF IntRaises(numbers[1]) \/ IntRaises(numbers[2])
         THEN ValueError
         ELSE Returned((IntOf(numbers[1]) + IntOf(numbers[2])) \div 2, status)
    ELSE Returned(default, status)

\* the guard of the third branch
IsLowBranch(abundance_lower) ==
    Contains(abundance_lower, kw_low) /\ ~Contains(abundance_lower, kw_very)

parse_abundance_number(text) ==
    LET abundance_lower == Lower(text)
        numbers == FindAll(text)
    IN  IF Contains(abundance_lower, kw_not_present)
           \/ Contains(abundance_lower, kw_background)
        THEN Returned(500, "safe")
        ELSE IF Contains(abundance_lower, kw_very_low)
        THEN Returned(2500, "safe")
        ELSE IF IsLowBranch(abundance_lower)
        THEN RangeMidpoint(numbers, 5000, "caution")
        ELSE IF Contains(abundance_lower, kw_medium)
        THEN RangeMidpoint(numbers, 50000, "avoid")
        ELSE IF Contains(abundance_lower, kw_high)
        THEN RangeMidpoint(numbers, 500000, "avoid")
        ELSE Returned(0, "safe")

(***************************************************************************)
(* Abundance texts: concatenations of at most MaxPieces pieces.            *)
(***************************************************************************)
TxtNotPresent == <<"N", "o", "t", " ", "P", "r", "e", "s", "e", "n", "t">>
TxtBackground == <<"b", "a", "c", "k", "g", "r", "o", "u", "n", "d">>
TxtVeryLow == <<"v", "e", "r", "y", " ", "l", "o", "w">>
TxtVery == <<" ", "(", "v", "e", "r", "y", " ", "p", "a", "t", "c", "h", "y", ")">>
TxtLow == <<"L", "o", "w">>
TxtMedium == <<"m", "e", "d", "i", "u", "m">>
TxtHigh == <<"h", "i", "g", "h">>
TxtRangeLow == <<" ", "(", "1", ",", "0", "0", "0", " ", "-", " ", "5", ",", "0", "0", "0", " ", "c", "e", "l", "l", "s", "/", "L", ")">>
TxtRangeHigh == <<" ", "(", "6", "0", "0", ",", "0", "0", "0", " ", "-", " ", "1", ",", "0", "0", "0", ",", "0", "0", "0", " ", "c", "e", "l", "l", "s", "/", "L", ")">>
TxtCommas == <<",", " ", "a", ",", " ", "b">>
TxtOneNumber == <<" ", "7">>
TxtNoData == <<"N", "o", " ", "D", "a", "t", "a">>

Pieces == {TxtNotPresent, TxtBackground, TxtVeryLow, TxtVery, TxtLow,
           TxtMedium, TxtHigh, TxtRangeLow, TxtRangeHigh, TxtCommas,
           TxtOneNumber, TxtNoData}

RECURSIVE Concat(_)
Concat(ps) == IF ps = <<>> THEN <<>> ELSE Head(ps) \o Concat(Tail(ps))

Texts == {Concat(ps) : ps \in UNION {[1..n -> Pieces] : n \in 0..MaxPieces}}

(***************************************************************************)
(* Site weight (get_distance_weight and the age weight).                   *)
(* Distances are in tenths of a mile, distance weights in tenths, age      *)
(* weights in 1/70 and the product in 1/700.                               *)
(***************************************************************************)
Max(a, b) == IF a >= b THEN a ELSE b
Min(a, b) == IF a <= b THEN a ELSE b

get_distance_weight(d) ==
    IF d <= 10 THEN 10
    ELSE IF d <= 30 THEN 7
    ELSE IF d <= 100 THEN 4
    ELSE 2

\* mutant: the age is divided by 14.0, the weight decays from day 8 to day 12
AgeWeightDecay(age) == IF age > 7 THEN Max(7, 70 - 5 * age) ELSE 70

\* mutant: the 0.1 floor is left out
AgeWeightNoFloor(age) == IF age > 7 THEN 70 - 10 * age ELSE 70

\* max(0.1, 1 - (age_days / 7.0)) if age_days > 7 else 1.0
AgeWeight(age) == IF age > 7 THEN Max(7, 70 - 10 * age) ELSE 70

FinalWeight(d, age) == get_distance_weight(d) * AgeWeight(age)

\* timedelta.days of (now - sample_date), both in hours: the floor
AgeDays(t, sample_date) == (t - sample_date) \div 24

(***************************************************************************)
(* _find_hab_data_by_id                                                    *)
(***************************************************************************)
NoFeature == [HAB_ID |-> 0, Abundance |-> <<>>, has_date |-> FALSE,
              SAMPLE_DATE |-> 0, LOCATION |-> <<>>]
Found(attrs) == [kind |-> "found", data |-> attrs]
NotFound == [kind |-> "none", data |-> NoFeature]
LookupRaised == [kind |-> "raised", data |-> NoFeature]

\* first loop: the first feature whose HAB_ID is hab_id
RECURSIVE ExactMatch(_, _)
ExactMatch(features, hab_id) ==
    IF features = <<>> THEN NotFound
    ELSE IF Head(features).HAB_ID = hab_id THEN Found(Head(features))
    ELSE ExactMatch(Tail(features), hab_id)

\* second loop: best_match / best_score over the features, in order
RECURSIVE BestMatch(_, _, _, _, _)
BestMatch(features, loc_lower, t, best_match, best_score) ==
    IF features = <<>> THEN best_match
    ELSE LET attrs == Head(features)
             location == Lower(attrs.LOCATION)
         IN  IF Contains(location, loc_lower) \/ Contains(loc_lower, location)
             THEN IF ~attrs.has_date THEN LookupRaised
                  ELSE LET score == Max(0, 10 - AgeDays(t, attrs.SAMPLE_DATE))
                       IN  IF score > best_score
                           THEN BestMatch(Tail(features), loc_lower, t,
                                          Found(attrs), score)
                           ELSE BestMatch(Tail(features), loc_lower, t,
                                          best_match, best_score)
             ELSE BestMatch(Tail(features), loc_lower, t, best_match, best_score)

find_hab_data_by_id(features, hab_id, sample_location, t) ==
    IF ExactMatch(features, hab_id).kind = "found"
    THEN ExactMatch(features, hab_id)
    ELSE BestMatch(features, Lower(sample_location), t, NotFound, 0)

(***************************************************************************)
(* calculate_beach_status                                                  *)
(***************************************************************************)
status_score(status) ==
    IF status = "caution" THEN 1 ELSE IF status = "avoid" THEN 2 ELSE 0

status_contribution(d) ==
    IF d <= 10 THEN "primary" ELSE IF d <= 30 THEN "secondary" ELSE "reference"

BeachStatus(status, count, confidence, latest, sites) ==
    [raised |-> FALSE, status |-> status, count |-> count,
     confidence |-> confidence, sample_date |-> latest, sampling_sites |-> sites]
BeachRaised ==
    [raised |-> TRUE, status |-> "exception", count |-> 0, confidence |-> 0,
     sample_date |-> <<>>, sampling_sites |-> <<>>]
NoStatus ==
    [raised |-> FALSE, status |-> "pending", count |-> 0, confidence |-> 0,
     sample_date |-> <<>>, sampling_sites |-> <<>>]

Loop(raised, scores, results, latest) ==
    [raised |-> raised, weighted_scores |-> scores, site_results |-> results,
     latest_sample_date |-> latest]

\* the record appended to site_results and the score appended to weighted_scores
SiteResult(site, data, parsedv, t) ==
    [hab_id |-> site.HAB_id,
     distance_miles |-> site.sample_distance,
     current_concentration |-> parsedv.count,
     status |-> parsedv.status,
     status_contribution |-> status_contribution(site.sample_distance),
     sample_date |-> data.SAMPLE_DATE,
     weight |-> FinalWeight(site.sample_distance, AgeDays(t, data.SAMPLE_DATE))]

WeightedScore(r) == status_score(r.status) * r.weight

\* the for loop over sampling_sites; acc is the state before the next site
RECURSIVE SiteLoop(_, _, _, _)
SiteLoop(sites, features, t, acc) ==
    IF sites = <<>> THEN acc
    ELSE LET site == Head(sites)
             site_data == find_hab_data_by_id(features, site.HAB_id,
                                              site.sample_location, t)
         IN  IF site_data.kind = "raised" THEN Loop(TRUE, <<>>, <<>>, <<>>)
             ELSE IF site_data.kind = "none"
             THEN SiteLoop(Tail(sites), features, t, acc)
             ELSE LET data == site_data.data
                      parsedv == parse_abundance_number(data.Abundance)
                  IN  IF parsedv.raised \/ ~data.has_date
                      THEN Loop(TRUE, <<>>, <<>>, <<>>)
                      ELSE LET r == SiteResult(site, data, parsedv, t)
                               latest ==
                                   IF acc.latest_sample_date = <<>>
                                      \/ data.SAMPLE_DATE > acc.latest_sample_date[1]
                                   THEN <<data.SAMPLE_DATE>>
                                   ELSE acc.latest_sample_date
                           IN  SiteLoop(Tail(sites), features, t,
                                        Loop(FALSE,
                                             Append(acc.weighted_scores, WeightedScore(r)),
                                             Append(acc.site_results, r),
                                             latest))

RECURSIVE SumSeq(_)
SumSeq(s) == IF s = <<>> THEN 0 ELSE Head(s) + SumSeq(Tail(s))

RECURSIVE MaxSeq(_)
MaxSeq(s) == IF Len(s) = 1 THEN s[1] ELSE Max(Head(s), MaxSeq(Tail(s)))

\* thresholds on avg_weighted_score = sum / len, scores in 1/700
OverallStatus(weighted_scores) ==
    LET total == SumSeq(weighted_scores)
        n == Len(weighted_scores)
    IN  IF 2 * total >= 3 * 700 * n THEN "avoid"
        ELSE IF 2 * total >= 700 * n THEN "caution"
        ELSE "safe"

\* mutant: the cap min(100, .) is left out
ConfidenceNoCap(site_results) ==
    LET total_weight == SumSeq([i \in DOMAIN site_results |-> site_results[i].weight])
    IN  (total_weight * 50) \div 700 + Len(site_results) * 10

\* min(100, int(total_weight * 50 + len(site_results) * 10))
Confidence(site_results) ==
    LET total_weight == SumSeq([i \in DOMAIN site_results |-> site_results[i].weight])
    IN  Min(100, (total_weight * 50) \div 700 + Len(site_results) * 10)

calculate_beach_status(sites, features, t) ==
    IF sites = <<>> THEN BeachStatus("no_data", 0, 0, <<>>, <<>>)
    ELSE LET loop == SiteLoop(sites, features, t, Loop(FALSE, <<>>, <<>>, <<>>))
         IN  IF loop.raised THEN BeachRaised
             ELSE IF loop.weighted_scores = <<>>
             THEN BeachStatus("no_data", 0, 0, loop.latest_sample_date,
                              loop.site_results)
             ELSE BeachStatus(
                      OverallStatus(loop.weighted_scores),
                      MaxSeq([i \in DOMAIN loop.site_results |->
                                 loop.site_results[i].current_concentration]),
                      Confidence(loop.site_results),
                      loop.latest_sample_date,
                      loop.site_results)

(***************************************************************************)
(* process_city / process_region.  None is the empty sequence, a returned  *)
(* record r is <<r>>.                                                      *)
(***************************************************************************)
None == <<>>

\* locations_data as _load_locations builds it: city -> region, in sheet order
Cities == <<"Naples", "Marco Island", "Sarasota">>
Regions == <<"Southwest Florida", "Sarasota Bay">>
RegionOf(city) == IF city = "Sarasota" THEN "Sarasota Bay" ELSE "Southwest Florida"

\* mutant: the priorities of 'avoid' and 'caution' are exchanged
status_priority_exchanged(s) ==
    IF s = "avoid" THEN 2
    ELSE IF s = "caution" THEN 3
    ELSE IF s = "safe" THEN 1
    ELSE 0

status_priority(s) ==
    IF s = "avoid" THEN 3
    ELSE IF s = "caution" THEN 2
    ELSE IF s = "safe" THEN 1
    ELSE 0

\* the loop `for beach in relevant_beaches`, worst being worst_status so far
RECURSIVE WorstLoop(_, _)
WorstLoop(beaches, worst) ==
    IF beaches = <<>> THEN worst
    ELSE IF status_priority(Head(beaches).current_status) > status_priority(worst)
    THEN WorstLoop(Tail(beaches), Head(beaches).current_status)
    ELSE WorstLoop(Tail(beaches), worst)

\* mutant: every beach is compared with 'safe' instead of worst_status
RECURSIVE WorstLoopVsSafe(_, _)
WorstLoopVsSafe(beaches, worst) ==
    IF beaches = <<>> THEN worst
    ELSE IF status_priority(Head(beaches).current_status) > status_priority("safe")
    THEN WorstLoopVsSafe(Tail(beaches), Head(beaches).current_status)
    ELSE WorstLoopVsSafe(Tail(beaches), worst)

WorstStatusVsSafe(relevant_beaches) == WorstLoopVsSafe(relevant_beaches, "safe")

\* mutant: the comparison is dropped, the last beach decides
WorstStatusLast(relevant_beaches) ==
    relevant_beaches[Len(relevant_beaches)].current_status

WorstStatus(relevant_beaches) == WorstLoop(relevant_beaches, "safe")

CountStatus(beaches, s) == Len(SelectSeq(beaches, LAMBDA b : b.current_status = s))

\* mutant: the filter `if b['peak_count'] > 0` is left out
PeakCountsAll(beaches) == [i \in DOMAIN beaches |-> beaches[i].peak_count]

PeakCounts(beaches) ==
    LET pos == SelectSeq(beaches, LAMBDA b : b.peak_count > 0)
    IN  [i \in DOMAIN pos |-> pos[i].peak_count]

\* the record both rollups build from relevant_beaches; process_city's has no
\* city_count / child_cities (here 0 and <<>>), process_region's no region
Rollup(name, type, region, relevant_beaches, relevant_cities) ==
    LET all_counts == PeakCounts(relevant_beaches)
        all_confidences ==
            [i \in DOMAIN relevant_beaches |-> relevant_beaches[i].confidence_score]
    IN  [location_name |-> name,
         location_type |-> type,
         current_status |-> WorstStatus(relevant_beaches),
         peak_count |-> IF all_counts # <<>> THEN MaxSeq(all_counts) ELSE 0,
         avg_count |-> IF all_counts # <<>>
                       THEN SumSeq(all_counts) \div Len(all_counts) ELSE 0,
         confidence_score |-> IF all_confidences # <<>>
                              THEN SumSeq(all_confidences) \div Len(all_confidences)
                              ELSE 0,
         beach_count |-> Len(relevant_beaches),
         city_count |-> Len(relevant_cities),
         beaches_safe |-> CountStatus(relevant_beaches, "safe"),
         beaches_caution |-> CountStatus(relevant_beaches, "caution"),
         beaches_avoid |-> CountStatus(relevant_beaches, "avoid"),
         region |-> region,
         child_cities |-> [i \in DOMAIN relevant_cities |->
                              relevant_cities[i].location_name],
         child_beaches |-> [i \in DOMAIN relevant_beaches |->
                               relevant_beaches[i].location_name]]

process_city(city_name, beaches) ==
    LET relevant_beaches == SelectSeq(beaches, LAMBDA b : b.city = city_name)
    IN  IF relevant_beaches = <<>> THEN None
        ELSE <<Rollup(city_name, "city", RegionOf(city_name), relevant_beaches, <<>>)>>

process_region(region_name, beaches, cities) ==
    LET relevant_beaches == SelectSeq(beaches, LAMBDA b : b.region = region_name)
        relevant_cities == SelectSeq(cities, LAMBDA c : c.region = region_name)
    IN  IF relevant_beaches = <<>> THEN None
        ELSE <<Rollup(region_name, "region", region_name, relevant_beaches,
                      relevant_cities)>>

(***************************************************************************)
(* process_beach.  sample_mapping and locations_data['beaches'] are        *)
(* sequences of rows keyed by beach, in sheet order.  Of processed_data    *)
(* the fields the rollups read are kept.                                   *)
(***************************************************************************)
\* self.sample_mapping.get(beach_name, [])
SitesOf(mapping, beach_name) ==
    LET rows == SelectSeq(mapping, LAMBDA m : m.beach = beach_name)
    IN  IF rows = <<>> THEN <<>> ELSE rows[1].sites

\* self.locations_data['beaches'].get(beach_name, {}) with the '' defaults
LocationRow(locations, beach_name) ==
    LET rows == SelectSeq(locations, LAMBDA l : l.beach = beach_name)
    IN  IF rows = <<>> THEN [beach |-> beach_name, city |-> "", region |-> ""]
        ELSE rows[1]

Processed(raised, data) == [raised |-> raised, data |-> data]

process_beach(beach_name, mapping, locations, features, t) ==
    LET sites == SitesOf(mapping, beach_name)
        result == calculate_beach_status(sites, features, t)
        beach_data == LocationRow(locations, beach_name)
    IN  IF sites = <<>> THEN Processed(FALSE, None)
        ELSE IF result.raised THEN Processed(TRUE, None)
        ELSE Processed(FALSE,
                       <<[location_name |-> beach_name,
                          city |-> beach_data.city,
                          region |-> beach_data.region,
                          current_status |-> result.status,
                          peak_count |-> result.count,
                          confidence_score |-> result.confidence]>>)

(***************************************************************************)
(* Inputs.                                                                 *)
(***************************************************************************)
RECURSIVE SeqsUpTo(_, _)
SeqsUpTo(S, n) ==
    IF n = 0 THEN {<<>>}
    ELSE SeqsUpTo(S, n - 1)
         \cup {Append(q, x) : q \in {r \in SeqsUpTo(S, n - 1) : Len(r) = n - 1}, x \in S}

\* distances in tenths of a mile, on and around every band edge
Distances == {0, 5, 10, 11, 30, 31, 50, 100, 101, 250}

\* the instants (hours) at which the program may read the clock
Clock == {191, 192, 240}
\* SAMPLE_DATE values (hours)
SampleDates == {0, 120}

TxtNaplesPier == <<"N", "a", "p", "l", "e", "s", " ", "P", "i", "e", "r">>
TxtBay == <<"B", "a", "y">>
TxtPier == <<"p", "i", "e", "r">>
TxtGulf == <<"G", "u", "l", "f">>
LocationOf(hab_id) == IF hab_id = 1 THEN TxtNaplesPier ELSE TxtBay

BeachTexts == {TxtNotPresent, TxtLow, TxtHigh \o TxtRangeHigh, TxtNoData,
               TxtLow \o TxtCommas}

\* the features the FWC service may hold for one HAB_ID
FeaturesOf(hab_id) ==
    {[HAB_ID |-> hab_id, Abundance |-> a, has_date |-> TRUE, SAMPLE_DATE |-> d,
      LOCATION |-> LocationOf(hab_id)] : a \in BeachTexts, d \in SampleDates}
    \cup {[HAB_ID |-> hab_id, Abundance |-> TxtNotPresent, has_date |-> FALSE,
           SAMPLE_DATE |-> 0, LOCATION |-> LocationOf(hab_id)]}

FwcData ==
    {<<>>} \cup {<<a>> : a \in FeaturesOf(1)} \cup {<<b>> : b \in FeaturesOf(2)}
    \cup {<<a, b>> : a \in FeaturesOf(1), b \in FeaturesOf(2)}

Sites ==
    {[HAB_id |-> h, sample_distance |-> d, sample_location |-> TxtPier] :
        h \in {1, 2}, d \in {5, 20, 150}}

\* processed beaches as process_beach hands them to the rollups; the peaks
\* are 0, the default 500 and the midpoints of two stated ranges
BeachKinds ==
    {[current_status |-> "no_data", peak_count |-> 0, confidence_score |-> 0],
     [current_status |-> "safe", peak_count |-> 500, confidence_score |-> 60],
     [current_status |-> "caution", peak_count |-> 3001, confidence_score |-> 45],
     [current_status |-> "avoid", peak_count |-> 800000, confidence_score |-> 100]}

\* the cities whose beaches have rows in sample_mapping
CityNames == {"Naples", "Marco Island"}

BeachResultsOfLen(n) ==
    {[i \in 1..n |-> [location_name |-> i, city |-> c[i], region |-> RegionOf(c[i]),
                      current_status |-> k[i].current_status,
                      peak_count |-> k[i].peak_count,
                      confidence_score |-> k[i].confidence_score]] :
        c \in [1..n -> CityNames], k \in [1..n -> BeachKinds]}

BeachResults == UNION {BeachResultsOfLen(n) : n \in 0..MaxBeaches}

RunOrder ==
    [i \in DOMAIN Cities |-> [level |-> "city", name |-> Cities[i]]]
    \o [i \in DOMAIN Regions |-> [level |-> "region", name |-> Regions[i]]]

\* mutant: the city loop and the region loop come before the beach loop
RunTasksRollupsFirst(mapping) ==
    RunOrder
    \o [i \in DOMAIN mapping |-> [level |-> "beach", name |-> mapping[i].beach]]

\* run(): the beaches of sample_mapping, then the cities, then the regions
RunTasks(mapping) ==
    [i \in DOMAIN mapping |-> [level |-> "beach", name |-> mapping[i].beach]]
    \o RunOrder

BeachNames == <<"Beach 1", "Beach 2", "Beach 3", "Beach 4", "Beach 5">>

Site(h, d) == [HAB_id |-> h, sample_distance |-> d, sample_location |-> TxtPier]

\* what the two sheets may hold for one beach: its city and its sampling
\* sites; the site of the second row is one the FWC service never reports
MappingRows ==
    {[city |-> "Naples", sites |-> <<Site(1, 5), Site(2, 5)>>],
     [city |-> "Naples",
      sites |-> <<[HAB_id |-> 3, sample_distance |-> 150, sample_location |-> TxtGulf]>>],
     [city |-> "Marco Island", sites |-> <<Site(1, 20)>>],
     [city |-> "Marco Island", sites |-> <<Site(2, 150), Site(1, 150)>>]}

Feature(h, a, d) ==
    [HAB_ID |-> h, Abundance |-> a, has_date |-> TRUE, SAMPLE_DATE |-> d,
     LOCATION |-> LocationOf(h)]

\* what fetch_fwc_data may return to run()
RunFwcData ==
    {<<>>,
     <<Feature(1, TxtHigh \o TxtRangeHigh, 120), Feature(2, TxtLow, 120)>>,
     <<Feature(1, TxtNotPresent, 120), Feature(2, TxtNotPresent, 0)>>,
     <<Feature(2, TxtLow, 0)>>,
     <<Feature(1, TxtLow \o TxtCommas, 120), Feature(2, TxtNotPresent, 0)>>}

NoRollup == [level |-> "none", name |-> "", result |-> None]

IdleClassify == abundance_text = <<>> /\ parsed = NotParsed
IdleWeight == distance = 0 /\ age_days = 0 /\ final_weight = 0
IdleBeach ==
    sampling_sites = <<>> /\ fwc_data = <<>> /\ now = 0 /\ beach_status = NoStatus
IdleRegistry == sample_mapping = <<>> /\ locations_data = <<>>
IdleRollup ==
    /\ beach_results = <<>> /\ city_results = <<>> /\ region_results = <<>>
    /\ todo = <<>> /\ last_rollup = NoRollup

(***************************************************************************)
(* The classifier on its own.                                              *)
(***************************************************************************)
InitClassify ==
    /\ pc = "classify"
    /\ abundance_text \in Texts
    /\ parsed = NotParsed
    /\ IdleWeight /\ IdleBeach /\ IdleRegistry /\ IdleRollup

Classify ==
    /\ pc = "classify"
    /\ parsed' = parse_abundance_number(abundance_text)
    /\ pc' = "done"
    /\ UNCHANGED <<abundance_text, weightVars, beachVars, registryVars, rollupVars>>

NextClassify == Classify

SpecClassify == InitClassify /\ [][NextClassify]_vars

(***************************************************************************)
(* The site weight on its own.                                             *)
(***************************************************************************)
InitWeight ==
    /\ pc = "weigh"
    /\ distance \in Distances
    /\ age_days \in (-1)..MaxAge
    /\ final_weight = 0
    /\ IdleClassify /\ IdleBeach /\ IdleRegistry /\ IdleRollup

Weigh ==
    /\ pc = "weigh"
    /\ final_weight' = FinalWeight(distance, age_days)
    /\ pc' = "done"
    /\ UNCHANGED <<distance, age_days, classifyVars, beachVars, registryVars, rollupVars>>

NextWeight == Weigh

SpecWeight == InitWeight /\ [][NextWeight]_vars

(***************************************************************************)
(* calculate_beach_status, called any number of times while the clock      *)
(* advances.                                                               *)
(***************************************************************************)
InitBeach ==
    /\ pc = "ready"
    /\ sampling_sites \in SeqsUpTo(Sites, MaxSites)
    /\ fwc_data \in FwcData
    /\ now \in Clock
    /\ beach_status = NoStatus
    /\ IdleClassify /\ IdleWeight /\ IdleRegistry /\ IdleRollup

CalculateBeachStatus ==
    /\ beach_status' = calculate_beach_status(sampling_sites, fwc_data, now)
    /\ pc' = "done"
    /\ UNCHANGED <<sampling_sites, fwc_data, now, classifyVars, weightVars,
                   registryVars, rollupVars>>

Tick ==
    /\ \E t \in Clock : t > now /\ now' = t
    /\ UNCHANGED <<pc, sampling_sites, fwc_data, beach_status,
                   classifyVars, weightVars, registryVars, rollupVars>>

NextBeach == CalculateBeachStatus \/ Tick

SpecBeach == InitBeach /\ [][NextBeach]_vars

(***************************************************************************)
(* The city loop and the region loop of run() over the processed beaches.  *)
(***************************************************************************)
InitRollup ==
    /\ pc = "rollup"
    /\ beach_results \in BeachResults
    /\ city_results = <<>>
    /\ region_results = <<>>
    /\ todo = RunOrder
    /\ last_rollup = NoRollup
    /\ IdleClassify /\ IdleWeight /\ IdleBeach /\ IdleRegistry

Advance ==
    /\ todo' = Tail(todo)
    /\ pc' = IF Tail(todo) = <<>> THEN "done" ELSE "rollup"

ProcessCity ==
    /\ pc = "rollup" /\ todo # <<>> /\ Head(todo).level = "city"
    /\ LET city_data == process_city(Head(todo).name, beach_results)
       IN  /\ city_results' = city_results \o city_data
           /\ last_rollup' = [level |-> "city", name |-> Head(todo).name,
                              result |-> city_data]
    /\ Advance
    /\ UNCHANGED <<beach_results, region_results, classifyVars, weightVars, beachVars,
                   registryVars>>

ProcessRegion ==
    /\ pc = "rollup" /\ todo # <<>> /\ Head(todo).level = "region"
    /\ LET region_data == process_region(Head(todo).name, beach_results, city_results)
       IN  /\ region_results' = region_results \o region_data
           /\ last_rollup' = [level |-> "region", name |-> Head(todo).name,
                              result |-> region_data]
    /\ Advance
    /\ UNCHANGED <<beach_results, city_results, classifyVars, weightVars, beachVars,
                   registryVars>>

NextRollup == ProcessCity \/ ProcessRegion

SpecRollup == InitRollup /\ [][NextRollup]_vars

(***************************************************************************)
(* run(): the beach loop, the city loop and the region loop, from the      *)
(* sheets and the FWC data.  An exception of process_beach ends the run.   *)
(***************************************************************************)
Stage(tasks) ==
    IF tasks = <<>> THEN "done"
    ELSE IF Head(tasks).level = "beach" THEN "beaches"
    ELSE "rollup"

InitRun ==
    /\ \E rows \in SeqsUpTo(MappingRows, MaxBeaches) :
           /\ sample_mapping =
                  [i \in DOMAIN rows |-> [beach |-> BeachNames[i], sites |-> rows[i].sites]]
           /\ locations_data =
                  [i \in DOMAIN rows |-> [beach |-> BeachNames[i], city |-> rows[i].city,
                                          region |-> RegionOf(rows[i].city)]]
    /\ fwc_data \in RunFwcData
    /\ now \in Clock
    /\ sampling_sites = <<>>
    /\ beach_status = NoStatus
    /\ beach_results = <<>>
    /\ city_results = <<>>
    /\ region_results = <<>>
    /\ todo = RunTasks(sample_mapping)
    /\ pc = Stage(todo)
    /\ last_rollup = NoRollup
    /\ IdleClassify /\ IdleWeight

ProcessBeach ==
    /\ pc = "beaches" /\ todo # <<>> /\ Head(todo).level = "beach"
    /\ LET beach_name == Head(todo).name
           sites == SitesOf(sample_mapping, beach_name)
           beach_data == process_beach(beach_name, sample_mapping, locations_data,
                                       fwc_data, now)
       IN  /\ sampling_sites' = sites
           /\ beach_status' = IF sites = <<>> THEN beach_status
                              ELSE calculate_beach_status(sites, fwc_data, now)
           /\ IF beach_data.raised
              THEN pc' = "aborted" /\ UNCHANGED <<beach_results, todo>>
              ELSE /\ beach_results' = beach_results \o beach_data.data
                   /\ todo' = Tail(todo)
                   /\ pc' = Stage(Tail(todo))
    /\ UNCHANGED <<fwc_data, now, city_results, region_results, last_rollup,
                   classifyVars, weightVars, registryVars>>

NextRun == ProcessBeach \/ ProcessCity \/ ProcessRegion \/ Tick

SpecRun == InitRun /\ [][NextRun]_vars

(***************************************************************************)
(* Properties of the rollup (SpecRollup).                                  *)
(***************************************************************************)
\* the severity order of the tiers: no_data < safe < caution < avoid
TierRank(t) ==
    CASE t = "no_data" -> 0 [] t = "safe" -> 1 [] t = "caution" -> 2 [] t = "avoid" -> 3

\* the children of the last rollup: the beaches of its city or region
Children(lr) ==
    IF lr.level = "city"
    THEN SelectSeq(beach_results, LAMBDA b : b.city = lr.name)
    ELSE SelectSeq(beach_results, LAMBDA b : b.region = lr.name)

DataTiers(kids) ==
    {kids[i].current_status : i \in DOMAIN kids} \ {"no_data"}

\* the last rollup, repeated on other beach results
RollupOf(lr, beaches) ==
    IF lr.level = "city"
    THEN process_city(lr.name, beaches)
    ELSE process_region(lr.name, beaches, city_results)

Permuted(q, p) == [i \in DOMAIN q |-> q[p[i]]]

\* C1: when at least one child has data, the rollup's tier is the worst tier
\* among the children that have data, whatever the order of the children.
C1_WorstOfChildren ==
    LET tiers == DataTiers(Children(last_rollup))
        result == last_rollup.result
    IN  (last_rollup.level # "none" /\ tiers # {}) =>
            /\ result # None
            /\ result[1].current_status \in tiers
            /\ \A t \in tiers : TierRank(t) <= TierRank(result[1].current_status)
            /\ \A p \in Permutations(DOMAIN beach_results) :
                   RollupOf(last_rollup, Permuted(beach_results, p))[1].current_status
                       = result[1].current_status

\* C1 witness: children avoid, caution, safe in this order rolled up to avoid
C1_Witness ==
    /\ last_rollup.level = "region"
    /\ Len(Children(last_rollup)) = 3
    /\ Children(last_rollup)[1].current_status = "avoid"
    /\ Children(last_rollup)[2].current_status = "caution"
    /\ Children(last_rollup)[3].current_status = "safe"
    /\ last_rollup.result # None
    /\ last_rollup.result[1].current_status = "avoid"

\* C2: a rollup none of whose children has data (all no_data, or no child at
\* all) returns a status whose tier is no_data.
C2_NoDataRollup ==
    (last_rollup.level # "none" /\ DataTiers(Children(last_rollup)) = {}) =>
        /\ last_rollup.result # None
        /\ last_rollup.result[1].current_status = "no_data"

IsChild(lr, b) == IF lr.level = "city" THEN b.city = lr.name ELSE b.region = lr.name

\* C3: making one child's tier strictly worse never makes the parent's tier
\* less severe.
C3_Monotone ==
    last_rollup.level # "none" =>
        \A i \in DOMAIN beach_results :
            \A t \in {"safe", "caution", "avoid"} :
                (/\ IsChild(last_rollup, beach_results[i])
                 /\ TierRank(t) > TierRank(beach_results[i].current_status)) =>
                    LET worse == [beach_results EXCEPT ![i].current_status = t]
                        after == RollupOf(last_rollup, worse)
                    IN  /\ last_rollup.result # None
                        /\ after # None
                        /\ TierRank(after[1].current_status)
                               >= TierRank(last_rollup.result[1].current_status)

\* C3 witness: a parent at avoid whose last child is safe and can get worse
C3_Witness ==
    /\ last_rollup.level = "city"
    /\ Len(Children(last_rollup)) >= 2
    /\ Children(last_rollup)[1].current_status = "avoid"
    /\ Children(last_rollup)[Len(Children(last_rollup))].current_status = "safe"
    /\ last_rollup.result # None
    /\ last_rollup.result[1].current_status = "avoid"

\* the integer part of the mean of a sequence of naturals, 0 when it is empty
IntegerMean(q) == IF q = <<>> THEN 0 ELSE SumSeq(q) \div Len(q)

\* the largest element of a sequence of naturals, 0 when it is empty
LargestOr0(q) ==
    IF q = <<>> THEN 0
    ELSE CHOOSE m \in {q[i] : i \in DOMAIN q} : \A i \in DOMAIN q : q[i] <= m

\* the children's peak concentrations that are > 0
NonZeroPeaks(kids) ==
    SelectSeq([i \in DOMAIN kids |-> kids[i].peak_count], LAMBDA p : p > 0)

\* C13: over a non-empty sequence of children the rollup's peak is the
\* largest child peak > 0 (0 if none), its average the integer mean of the
\* children's non-zero peaks (0 if none), and its confidence the integer mean
\* of the confidences of all children, the no_data children's 0 included.
C13_Summaries ==
    LET kids == Children(last_rollup)
        result == last_rollup.result
    IN  (last_rollup.level # "none" /\ kids # <<>>) =>
            /\ result # None
            /\ result[1].peak_count = LargestOr0(NonZeroPeaks(kids))
            /\ result[1].avg_count = IntegerMean(NonZeroPeaks(kids))
            /\ result[1].confidence_score =
                   IntegerMean([i \in DOMAIN kids |-> kids[i].confidence_score])

\* C13 witness: children no_data, safe and caution rolled up to peak 3001,
\* average 1750 (of 500 and 3001) and confidence 35 (of 0, 60 and 45)
C13_Witness ==
    /\ last_rollup.level = "region"
    /\ {Children(last_rollup)[i].current_status : i \in DOMAIN Children(last_rollup)}
           = {"no_data", "safe", "caution"}
    /\ Len(Children(last_rollup)) = 3
    /\ last_rollup.result # None
    /\ last_rollup.result[1].peak_count = 3001
    /\ last_rollup.result[1].avg_count = 1750
    /\ last_rollup.result[1].confidence_score = 35

\* the number of children at tier t
ChildrenAt(kids, t) == Cardinality({i \in DOMAIN kids : kids[i].current_status = t})

\* C14: the rollup reports the number of children at each tier, no_data
\* included, and the per-tier counts it reports sum to the number of children
\* rolled up.
C14_CountsByTier ==
    LET kids == Children(last_rollup)
        result == last_rollup.result
    IN  (last_rollup.level # "none" /\ result # None) =>
            /\ result[1].beaches_safe = ChildrenAt(kids, "safe")
            /\ result[1].beaches_caution = ChildrenAt(kids, "caution")
            /\ result[1].beaches_avoid = ChildrenAt(kids, "avoid")
            /\ result[1].beach_count = Len(kids)
            /\ result[1].beaches_safe + result[1].beaches_caution
                   + result[1].beaches_avoid = result[1].beach_count

\* C14, of the three tiers the rollup does count
C14_DataTierCounts ==
    LET kids == Children(last_rollup)
        result == last_rollup.result
    IN  (last_rollup.level # "none" /\ result # None) =>
            /\ result[1].beaches_safe = ChildrenAt(kids, "safe")
            /\ result[1].beaches_caution = ChildrenAt(kids, "caution")
            /\ result[1].beaches_avoid = ChildrenAt(kids, "avoid")
            /\ result[1].beach_count = Len(kids)

\* the statuses of the cities of a region, as the run produced them
CitiesOf(region_name) == SelectSeq(city_results, LAMBDA c : c.region = region_name)

\* C16: after a complete run, the tier of every region that received a
\* status is the worst tier among the statuses of its cities, and no city
\* has a tier more severe than its region's.
C16_HierarchyConsistent ==
    pc = "done" =>
        \A r \in DOMAIN region_results :
            LET cities == CitiesOf(region_results[r].location_name)
            IN  /\ \E i \in DOMAIN cities :
                       cities[i].current_status = region_results[r].current_status
                /\ \A i \in DOMAIN cities :
                       TierRank(cities[i].current_status)
                           <= TierRank(region_results[r].current_status)

\* C16 witness: a complete run with a region at avoid over a city at avoid
\* and a city at safe
C16_Witness ==
    /\ pc = "done"
    /\ Len(region_results) = 1
    /\ region_results[1].current_status = "avoid"
    /\ Len(CitiesOf(region_results[1].location_name)) = 2
    /\ CitiesOf(region_results[1].location_name)[1].current_status = "safe"
    /\ CitiesOf(region_results[1].location_name)[2].current_status = "avoid"

(***************************************************************************)
(* Properties of the classifier (SpecClassify).                            *)
(***************************************************************************)
\* the tier by keyword priority: not present / background, very low, low,
\* medium, high, none
TierByKeyword(text) ==
    LET t == Lower(text)
    IN  IF Contains(t, kw_not_present) \/ Contains(t, kw_background) THEN "safe"
        ELSE IF Contains(t, kw_very_low) THEN "safe"
        ELSE IF Contains(t, kw_low) THEN "caution"
        ELSE IF Contains(t, kw_medium) THEN "avoid"
        ELSE IF Contains(t, kw_high) THEN "avoid"
        ELSE "safe"

\* C6: the classifier's tier is decided by the keywords in priority order; in
\* particular a text with 'low' and without 'very low' (and no earlier
\* keyword) is caution.  Stated of the calls that return.
C6_KeywordPriority ==
    (pc = "done" /\ ~parsed.raised) =>
        /\ parsed.status \in {"safe", "caution", "avoid"}
        /\ parsed.status = TierByKeyword(abundance_text)

\* the midpoint of the first two groups, or the default
EstimateOf(text, default) ==
    IF Len(FindAll(text)) >= 2
    THEN (IntOf(FindAll(text)[1]) + IntOf(FindAll(text)[2])) \div 2
    ELSE default

\* the estimate of a text, by the branch parse_abundance_number takes
Estimate(text) ==
    LET t == Lower(text)
    IN  IF Contains(t, kw_not_present) \/ Contains(t, kw_background) THEN 500
        ELSE IF Contains(t, kw_very_low) THEN 2500
        ELSE IF IsLowBranch(t) THEN EstimateOf(text, 5000)
        ELSE IF Contains(t, kw_medium) THEN EstimateOf(text, 50000)
        ELSE IF Contains(t, kw_high) THEN EstimateOf(text, 500000)
        ELSE 0

\* C7: the estimate is 500 for not present / background, 2500 for very low,
\* and for low, medium, high the floor of the mean of the first two groups
\* when there are two, else the default 5000 / 50000 / 500000.
C7_Estimate ==
    pc = "done" => (~parsed.raised /\ parsed.count = Estimate(abundance_text))

\* C7, of the calls that return only: these all carry the stated estimate
C7_EstimateWhenReturned ==
    (pc = "done" /\ ~parsed.raised) => parsed.count = Estimate(abundance_text)

(***************************************************************************)
(* Properties of the site weight (SpecWeight).                             *)
(***************************************************************************)
\* distance_weight x age_weight as stated, in 1/700
StatedWeight(d, age) ==
    (CASE d <= 10 -> 10 [] d > 10 /\ d <= 30 -> 7 [] d > 30 /\ d <= 100 -> 4
       [] d > 100 -> 2)
    * (IF age <= 7 THEN 70 ELSE Max(7, 70 - 10 * age))

\* C8: the weight is distance_weight x age_weight, never zero and in (0, 1];
\* weight(0.5, 2) = 1.0 and weight(5, 10) = 0.04.
C8_Weight ==
    pc = "done" =>
        /\ final_weight = StatedWeight(distance, age_days)
        /\ final_weight > 0 /\ final_weight <= 700
        /\ (distance = 5 /\ age_days = 2) => final_weight = 700
        /\ (distance = 50 /\ age_days = 10) => final_weight = 28

\* C8 witness: weight(5, 10) = 0.04 has been computed
C8_Witness ==
    pc = "done" /\ distance = 50 /\ age_days = 10 /\ final_weight = 28

\* the eight site weights {1.0, 0.7, 0.4, 0.2} x {1.0, 0.1}, in 1/700
EightWeights == {d * a : d \in {10, 7, 4, 2}, a \in {70, 7}}

\* C17: for every sample age above 7 days the age weight is exactly the
\* floor 0.1, so the site weight is a tenth of the distance weight and there
\* is no gradual decay; a site weight is one of the eight values
\* {1.0, 0.7, 0.4, 0.2} x {1.0, 0.1}.
C17_StepAgeWeight ==
    pc = "done" =>
        /\ final_weight \in EightWeights
        /\ age_days > 7 => final_weight \in {d * 7 : d \in {10, 7, 4, 2}}
        /\ age_days > 7 => 10 * final_weight = FinalWeight(distance, 0)
        /\ age_days <= 7 => final_weight \in {d * 70 : d \in {10, 7, 4, 2}}

\* C17 witness: a sample of 8 days at 1.1 miles has weight 0.07
C17_Witness ==
    pc = "done" /\ age_days = 8 /\ distance = 11 /\ final_weight = 49

(***************************************************************************)
(* Properties of the beach aggregation (SpecBeach).                        *)
(***************************************************************************)
\* this step is a call of calculate_beach_status (it read the clock at now)
Called == pc' = "done" /\ now' = now

\* what the lookup of one site gives at instant t
SiteData(site, t) ==
    find_hab_data_by_id(fwc_data, site.HAB_id, site.sample_location, t)

\* the sites whose reading the aggregation consumes at instant t
Consumed(t) == SelectSeq(sampling_sites, LAMBDA site : SiteData(site, t).kind = "found")

\* tier_ordinal(tier) x weight of one consumed site, in 1/700
Score(site, t) ==
    LET tier == parse_abundance_number(SiteData(site, t).data.Abundance).status
    IN  (CASE tier = "avoid" -> 2 [] tier = "caution" -> 1 [] OTHER -> 0)
        * FinalWeight(site.sample_distance,
                      AgeDays(t, SiteData(site, t).data.SAMPLE_DATE))

\* mean >= 1.5 avoid, mean >= 0.5 caution, else safe; scores in 1/700
TierOfMean(scores) ==
    IF 10 * SumSeq(scores) >= 15 * 700 * Len(scores) THEN "avoid"
    ELSE IF 10 * SumSeq(scores) >= 5 * 700 * Len(scores) THEN "caution"
    ELSE "safe"

NoDataIffNoReadings(status, t) ==
    /\ (status.status = "no_data") <=> (Consumed(t) = <<>>)
    /\ status.status = "no_data" =>
           status.confidence = 0 /\ status.count = 0 /\ status.sampling_sites = <<>>
    /\ Consumed(t) # <<>> => status.status \in {"safe", "caution", "avoid"}

\* C4: the aggregation returns no_data exactly when it consumed no reading
\* (then with confidence 0, peak 0, no contribution); with a reading consumed
\* the tier is safe, caution or avoid.
C4_NoDataIffNoReadings ==
    [][Called => (~beach_status'.raised /\ NoDataIffNoReadings(beach_status', now))]_vars

\* C4, of the calls that return only
C4_WhenReturned ==
    [][(Called /\ ~beach_status'.raised) => NoDataIffNoReadings(beach_status', now)]_vars

TierByMean(status, t) ==
    Consumed(t) # <<>> =>
        status.status = TierOfMean([i \in DOMAIN Consumed(t) |-> Score(Consumed(t)[i], t)])

\* C5: with readings, the tier is decided by the unweighted mean of the
\* scores tier_ordinal x weight: >= 1.5 avoid, >= 0.5 caution, else safe.
C5_TierByMean ==
    [][Called => (~beach_status'.raised /\ TierByMean(beach_status', now))]_vars

\* C5, of the calls that return only
C5_WhenReturned ==
    [][(Called /\ ~beach_status'.raised) => TierByMean(beach_status', now)]_vars

\* every consumed reading is a contribution with its weight, a reading with
\* no keyword as (0, safe)
AllContribute(status, t) ==
    /\ Len(status.sampling_sites) = Len(Consumed(t))
    /\ \A i \in DOMAIN Consumed(t) :
           /\ status.sampling_sites[i].weight > 0
           /\ SiteData(Consumed(t)[i], t).data.Abundance = TxtNoData =>
                  /\ status.sampling_sites[i].current_concentration = 0
                  /\ status.sampling_sites[i].status = "safe"

\* C9: whatever the readings' texts and fields, the aggregation returns a
\* status; a reading with no keyword is (0, safe) and still contributes.
C9_NeverRaises ==
    [][Called => (~beach_status'.raised /\ AllContribute(beach_status', now))]_vars

\* C9, of the calls that return only
C9_WhenReturned ==
    [][(Called /\ ~beach_status'.raised) => AllContribute(beach_status', now)]_vars

\* C10: a second call on the same sampling sites and FWC data returns what
\* the first call returned, whenever it is made.
C10_Deterministic ==
    [][pc = "done" => beach_status' = beach_status]_vars

\* num / den rounded to the nearest integer, a half to the even neighbour
\* (Python's round); num >= 0, den > 0
RoundHalfEven(num, den) ==
    LET q == num \div den
        r == num % den
    IN  IF 2 * r > den THEN q + 1
        ELSE IF 2 * r < den THEN q
        ELSE IF q % 2 = 0 THEN q ELSE q + 1

\* the weights of the contributions of a returned status, in 1/700
WeightsOf(status) ==
    [i \in DOMAIN status.sampling_sites |-> status.sampling_sites[i].weight]

\* min(100, round(total_weight x 50 + contribution_count x 10))
RoundedConfidence(weights) ==
    Min(100, RoundHalfEven(50 * SumSeq(weights) + 7000 * Len(weights), 700))

\* min(100, total_weight x 50 + contribution_count x 10 truncated)
TruncatedConfidence(weights) ==
    Min(100, (50 * SumSeq(weights) + 7000 * Len(weights)) \div 700)

\* C12: with at least one contribution, the beach confidence is
\* min(100, round(total_weight x 50 + contribution_count x 10)), rounded to
\* the nearest integer, not truncated.
C12_RoundedConfidence ==
    [][(Called /\ ~beach_status'.raised /\ beach_status'.sampling_sites # <<>>) =>
           beach_status'.confidence = RoundedConfidence(WeightsOf(beach_status'))]_vars

\* C12, with the sum truncated instead: what every returning call gives
C12_TruncatedWhenReturned ==
    [][(Called /\ ~beach_status'.raised /\ beach_status'.sampling_sites # <<>>) =>
           beach_status'.confidence = TruncatedConfidence(WeightsOf(beach_status'))]_vars

(***************************************************************************)
(* Properties of a run (SpecRun).                                          *)
(***************************************************************************)
\* the confidences of the statuses one list of the run holds
ConfidencesOf(results) == {results[i].confidence_score : i \in DOMAIN results}

\* C11: every status a run produces, at the beach, city or region level,
\* carries an integer confidence between 0 and 100 inclusive.
C11_ConfidenceRange ==
    /\ ~beach_status.raised => beach_status.confidence \in 0..100
    /\ ConfidencesOf(beach_results) \subseteq 0..100
    /\ ConfidencesOf(city_results) \subseteq 0..100
    /\ ConfidencesOf(region_results) \subseteq 0..100

\* C11 witness: a complete run with a beach at the cap 100, a beach at 0 and
\* a region strictly between
C11_Witness ==
    /\ pc = "done"
    /\ {0, 100} \subseteq ConfidencesOf(beach_results)
    /\ \E c \in ConfidencesOf(region_results) : 0 < c /\ c < 100
    /\ city_results # <<>>

\* this step is a call of process_city (level "city") or process_region
RollupStarts(level) ==
    todo # <<>> /\ Head(todo).level = level /\ last_rollup' # last_rollup

\* no task of this level is still to be processed
LevelComplete(level) == \A i \in DOMAIN todo : todo[i].level # level

\* every beach of sample_mapping has its status among beach_results
BeachesComputed ==
    \A i \in DOMAIN sample_mapping :
        \E j \in DOMAIN beach_results :
            beach_results[j].location_name = sample_mapping[i].beach

\* every city that has a processed beach has its status among city_results
CitiesFinished ==
    \A j \in DOMAIN beach_results :
        \E k \in DOMAIN city_results :
            city_results[k].location_name = beach_results[j].city

\* C15: no city rollup starts before the status of every beach to process
\* has been computed, no region rollup before every city rollup has
\* finished, and the lists a rollup reads are complete: a list is not
\* extended once a rollup of the level above has run.
C15_LevelOrder ==
    [][/\ RollupStarts("city") => (LevelComplete("beach") /\ BeachesComputed)
       /\ RollupStarts("region") =>
              /\ LevelComplete("beach") /\ BeachesComputed
              /\ Len(todo) <= Len(Regions) /\ LevelComplete("city")
              /\ CitiesFinished
       /\ beach_results' # beach_results =>
              (last_rollup = NoRollup /\ city_results = <<>> /\ region_results = <<>>)
       /\ city_results' # city_results => region_results = <<>>]_vars

\* C15 witness: a complete run over three beaches in two cities, with the
\* beaches, both cities and their region processed
C15_Witness ==
    /\ pc = "done"
    /\ Len(sample_mapping) = 3
    /\ Len(beach_results) = 3
    /\ Len(city_results) = 2
    /\ Len(region_results) = 1
    /\ last_rollup.level = "region"

====
